---- MODULE Spec2Model ----
(***************************************************************************)
(* State-machine model of the signal-driven sampler of src/src/profiler.rs *)
(* (ProfilerGuardBuilder::build, Drop for ProfilerGuard, Profiler::start,  *)
(* Profiler::stop, Profiler::init, Profiler::sample, perf_signal_handler,  *)
(* ErrnoProtector) together with the kernel objects it drives: the SIGPROF *)
(* disposition, the ITIMER_PROF interval timer and a pending SIGPROF.      *)
(* The trace closure of perf_signal_handler (also the copy in              *)
(* src/src/platform/platform_nix/profiler.rs), write_thread_name_fallback  *)
(* and Profiler::stop are in addition applied on their own to bounded sets *)
(* of inputs (SpecFn, SpecStop); SpecReport adds a report consumer.        *)
(***************************************************************************)
EXTENDS Bags, FiniteSets, Integers, Sequences, TLC

\* ------------------------------------------------------------------ bounds
\* Application threads that call build(), drop guards and get interrupted.
Threads == {1, 2}

\* Handler invocations are started only while the samples taken plus the
\* invocations in progress number fewer than MaxSamples.
MaxSamples == 2

\* Interrupted PCs are 1 .. MaxAddr.
MaxAddr == 2

\* Values errno takes.
ErrnoVals == {0, 4}

Addrs == 1 .. MaxAddr

\* A null ucontext pointer (tests::malloc_free passes null_mut()).
NullCtx == -1

NoOwner == <<0, "none">>

\* Segment lists a builder can carry: the default (empty) one and one
\* library segment (start, end) = (1, 3).
BlocklistChoices == { <<>>, << <<1, 3>> >> }

\* crate::MAX_DEPTH, scaled down.
MAX_DEPTH == 2

\* crate::MAX_THREAD_NAME, scaled down.
MAX_THREAD_NAME == 3

\* write_thread_name_fallback is applied to the thread ids 1 .. MaxTid.
MaxTid == 120

\* The unwinder yields frame sequences of up to MaxFrames frames, with ips
\* in 0 .. MaxAddr.
MaxFrames == 3

VARIABLES
    lazy,                \* PROFILER: "uninit", or "ok" / "err" (Result<Profiler>)
    running,             \* Profiler.running
    sample_counter,      \* Profiler.sample_counter
    data,                \* Profiler.data: bag of recorded sample keys
    blocklist_segments,  \* Profiler.blocklist_segments
    lockW,               \* write owner of the RwLock: <<thread, "main"|"sig">>
    lockR,               \* threads holding the RwLock for reading
    disposition,         \* SIGPROF disposition: "default", "handler", "ignore"
    timerArmed,          \* ITIMER_PROF armed
    pending,             \* a SIGPROF generated by the timer, not yet delivered
    guards,              \* live ProfilerGuards owned by each thread
    pc,                  \* position of each thread in build() / drop()
    arg,                 \* self.blocklist_segments of the builder in build()
    ret,                 \* result build() / stop() is about to return
    hpc,                 \* position of perf_signal_handler on each thread
    uctx,                \* the handler's ucontext: NullCtx or the interrupted PC
    errno,               \* errno of each thread
    saved,               \* ErrnoProtector.0 of the running handler
    entryErrno,          \* history: errno when the handler was entered
    frame_pointer,       \* cfg(feature = "frame-pointer") of the build
    call                 \* a function applied on its own: inputs and results

vars == << lazy, running, sample_counter, data, blocklist_segments, lockW, lockR,
           disposition, timerArmed, pending, guards, pc, arg, ret, hpc, uctx,
           errno, saved, entryErrno, frame_pointer, call >>

profiler == << running, sample_counter, data, blocklist_segments >>
kernel   == << disposition, timerArmed, pending >>
lock     == << lockW, lockR >>
main     == << guards, pc, arg, ret >>
sig      == << hpc, uctx, errno, saved, entryErrno >>
pure     == << frame_pointer, call >>

\* ------------------------------------------------------------- pure parts

\* cfg(feature = "frame-pointer"): the closure handed to TraceImpl::trace
\* checks every frame's ip against the blocklist.
FramePointer == frame_pointer

\* No function is applied on its own.
NoCall == [op |-> "none"]

\* An is_blocklisted that would count the ends of a segment as inside it.
is_blocklisted_closed(segments, addr) ==
    \E i \in 1 .. Len(segments) : addr >= segments[i][1] /\ addr <= segments[i][2]

\* Profiler::is_blocklisted
is_blocklisted(segments, addr) ==
    \E i \in 1 .. Len(segments) : addr > segments[i][1] /\ addr < segments[i][2]

\* TraceImpl::trace: the frames of the interrupted stack, innermost first.
\* With a ucontext the innermost frame is the interrupted PC.
Unwind(ctx) ==
    IF ctx = NullCtx THEN << 0 >> ELSE << ctx, 0 >>

\* A closure that would push every frame it is handed.
RECURSIVE Visit_nodepth(_, _, _)
Visit_nodepth(frames, segments, bt) ==
    IF frames = << >> THEN bt
    ELSE IF FramePointer /\ is_blocklisted(segments, Head(frames)) THEN bt
    ELSE Visit_nodepth(Tail(frames), segments, Append(bt, Head(frames)))

\* A closure that would skip a blocklisted frame and go on unwinding.
RECURSIVE Visit_skip(_, _, _)
Visit_skip(frames, segments, bt) ==
    IF frames = << >> THEN bt
    ELSE IF FramePointer /\ is_blocklisted(segments, Head(frames))
         THEN Visit_skip(Tail(frames), segments, bt)
    ELSE IF Len(bt) < MAX_DEPTH
         THEN Visit_skip(Tail(frames), segments, Append(bt, Head(frames)))
         ELSE bt

\* The closure of perf_signal_handler applied to the frames in order:
\* bt after the walk.
RECURSIVE Visit(_, _, _)
Visit(frames, segments, bt) ==
    IF frames = << >> THEN bt
    ELSE IF FramePointer /\ is_blocklisted(segments, Head(frames)) THEN bt
    ELSE IF Len(bt) < MAX_DEPTH
         THEN Visit(Tail(frames), segments, Append(bt, Head(frames)))
         ELSE bt

\* The closure of perf_signal_handler in platform/platform_nix/profiler.rs:
\* the blocklist check of every frame's ip is not under a cfg.
RECURSIVE VisitNix(_, _, _)
VisitNix(frames, segments, bt) ==
    IF frames = << >> THEN bt
    ELSE IF is_blocklisted(segments, Head(frames)) THEN bt
    ELSE IF Len(bt) < MAX_DEPTH
         THEN VisitNix(Tail(frames), segments, Append(bt, Head(frames)))
         ELSE bt

\* write_thread_name_fallback, first loop: << base, len >> when it ends.
RECURSIVE CountLoop(_, _, _)
CountLoop(current_thread, base, len) ==
    IF current_thread > base /\ len < MAX_THREAD_NAME
    THEN CountLoop(current_thread, base * 10, len + 1)
    ELSE << base, len >>

\* The largest value of libc::c_char.
C_CHAR_MAX == 127

\* write_thread_name_fallback, second loop: the buffer when it ends, and
\* whether the Err arm of try_into (log::error!) was taken.
RECURSIVE DigitLoop(_, _, _, _, _, _)
DigitLoop(current_thread, base, len, index, name, logged) ==
    IF index < len /\ base > 1
    THEN LET b == base \div 10
             d == 48 + ((current_thread \div b) % 10)
         IN  IF d <= C_CHAR_MAX
             THEN DigitLoop(current_thread, b, len, index + 1,
                            [name EXCEPT ![index + 1] = d], logged)
             ELSE DigitLoop(current_thread, b, len, index + 1,
                            [name EXCEPT ![index + 1] = 0], TRUE)
    ELSE [name |-> name, logged |-> logged]

\* write_thread_name_fallback(current_thread, name)
write_thread_name_fallback(current_thread, name) ==
    LET c == CountLoop(current_thread, 1, 0)
    IN  DigitLoop(current_thread, c[1], c[2], 0, name, FALSE)

\* let mut name = [0; MAX_THREAD_NAME]
ZeroName == [i \in 1 .. MAX_THREAD_NAME |-> 0]

\* CStr::from_ptr(name_ptr).to_bytes(): the bytes before the first NUL of the
\* buffer. Without a NUL in the buffer the read runs past its end: the
\* whole buffer is then the part of the result that is determined.
to_bytes(name) ==
    LET nul == { i \in 1 .. Len(name) : name[i] = 0 }
    IN  IF nul = {} THEN name
        ELSE SubSeq(name, 1, (CHOOSE i \in nul : \A j \in nul : i <= j) - 1)

\* ErrnoProtector::new
ErrnoProtectorNew(e) == e

\* A drop of ErrnoProtector that would leave errno as the handler left it.
ErrnoProtectorDrop_norestore(savedErrno, current) == current

\* Drop for ErrnoProtector: the value errno has afterwards.
ErrnoProtectorDrop(savedErrno, current) == savedErrno

\* Lazy::force on PROFILER: Profiler::new() runs once.
LazyForce ==
    IF lazy = "uninit" THEN lazy' \in {"ok", "err"} ELSE lazy' = lazy

\* RwLock::try_write succeeds / RwLock::write returns.
LockFree == lockW = NoOwner /\ lockR = {}

\* -------------------------------------------------------------------- Init
\* The state after process start, errno of the threads left open.
InitProfiler ==
    /\ lazy = "uninit"
    /\ running = FALSE
    /\ sample_counter = 0
    /\ data = EmptyBag
    /\ blocklist_segments = << >>
    /\ lockW = NoOwner
    /\ lockR = {}
    /\ disposition = "default"
    /\ timerArmed = FALSE
    /\ pending = FALSE
    /\ guards = [t \in Threads |-> 0]
    /\ pc = [t \in Threads |-> "idle"]
    /\ arg = [t \in Threads |-> << >>]
    /\ ret = [t \in Threads |-> "none"]
    /\ hpc = [t \in Threads |-> "none"]
    /\ uctx = [t \in Threads |-> NullCtx]
    /\ saved = [t \in Threads |-> 0]
    /\ entryErrno = [t \in Threads |-> 0]

\* The crate built with the frame-pointer feature.
Init ==
    /\ InitProfiler
    /\ errno = [t \in Threads |-> 0]
    /\ frame_pointer = TRUE
    /\ call = NoCall

\* Every thread's own code has left errno at any of the values.
InitErrno ==
    /\ InitProfiler
    /\ errno \in [Threads -> ErrnoVals]
    /\ frame_pointer = TRUE
    /\ call = NoCall

\* ----------------------------------------------------------------- build()

\* build(): trigger_lazy() takes PROFILER.read(), forcing the Lazy.
BuildTriggerLazy(t) ==
    /\ pc[t] = "idle" /\ hpc[t] = "none"
    /\ lockW = NoOwner
    /\ LazyForce
    /\ \E bl \in BlocklistChoices : arg' = [arg EXCEPT ![t] = bl]
    /\ lockR' = lockR \cup {t}
    /\ pc' = [pc EXCEPT ![t] = "b_lazy"]
    /\ ret' = [ret EXCEPT ![t] = "none"]
    /\ UNCHANGED << profiler, kernel, lockW, guards, sig >>
    /\ UNCHANGED pure

\* trigger_lazy() returns: the read guard is dropped.
BuildLazyRelease(t) ==
    /\ pc[t] = "b_lazy" /\ hpc[t] = "none"
    /\ lockR' = lockR \ {t}
    /\ pc' = [pc EXCEPT ![t] = "b_write"]
    /\ UNCHANGED << lazy, profiler, kernel, lockW, guards, arg, ret, sig >>
    /\ UNCHANGED pure

\* PROFILER.write() in build(): blocks until the lock is free.
BuildWrite(t) ==
    /\ pc[t] = "b_write" /\ hpc[t] = "none"
    /\ LockFree
    /\ lockW' = << t, "main" >>
    /\ pc' = [pc EXCEPT ![t] = "b_locked"]
    /\ UNCHANGED << lazy, profiler, kernel, lockR, guards, arg, ret, sig >>
    /\ UNCHANGED pure

\* A start() that would not test self.running.
ProfilerStart_nocheck(t, sigOk) ==
    IF sigOk
    THEN /\ disposition' = "handler"
         /\ running' = TRUE
         /\ pc' = [pc EXCEPT ![t] = "b_timer"]
         /\ UNCHANGED ret
    ELSE /\ ret' = [ret EXCEPT ![t] = "OsError"]
         /\ pc' = [pc EXCEPT ![t] = "b_unlock"]
         /\ UNCHANGED << disposition, running >>

\* A start() that would set running before register_signal_handler()?.
ProfilerStart_runfirst(t, sigOk) ==
    IF running
    THEN /\ ret' = [ret EXCEPT ![t] = "Running"]
         /\ pc' = [pc EXCEPT ![t] = "b_unlock"]
         /\ UNCHANGED << disposition, running >>
    ELSE IF sigOk
    THEN /\ disposition' = "handler"
         /\ running' = TRUE
         /\ pc' = [pc EXCEPT ![t] = "b_timer"]
         /\ UNCHANGED ret
    ELSE /\ ret' = [ret EXCEPT ![t] = "OsError"]
         /\ running' = TRUE
         /\ pc' = [pc EXCEPT ![t] = "b_unlock"]
         /\ UNCHANGED disposition

\* Profiler::start with register_signal_handler inlined; sigOk is the outcome
\* of sigaction(SIGPROF, ..).
ProfilerStart(t, sigOk) ==
    IF running
    THEN /\ ret' = [ret EXCEPT ![t] = "Running"]
         /\ pc' = [pc EXCEPT ![t] = "b_unlock"]
         /\ UNCHANGED << disposition, running >>
    ELSE IF sigOk
    THEN /\ disposition' = "handler"
         /\ running' = TRUE
         /\ pc' = [pc EXCEPT ![t] = "b_timer"]
         /\ UNCHANGED ret
    ELSE /\ ret' = [ret EXCEPT ![t] = "OsError"]
         /\ pc' = [pc EXCEPT ![t] = "b_unlock"]
         /\ UNCHANGED << disposition, running >>

\* A build() that would start the profiler whatever the Result holds.
BuildStart_noerr(t) ==
    /\ pc[t] = "b_locked" /\ hpc[t] = "none"
    /\ blocklist_segments' = arg[t]
    /\ \E sigOk \in BOOLEAN : ProfilerStart(t, sigOk)
    /\ UNCHANGED << sample_counter, data >>
    /\ arg' = [arg EXCEPT ![t] = << >>]
    /\ UNCHANGED << lazy, lock, timerArmed, pending, guards, sig >>
    /\ UNCHANGED pure

\* build(): the match on the locked Result<Profiler>, up to profiler.start().
BuildStart(t) ==
    /\ pc[t] = "b_locked" /\ hpc[t] = "none"
    /\ IF lazy = "err"
       THEN /\ ret' = [ret EXCEPT ![t] = "CreatingError"]
            /\ pc' = [pc EXCEPT ![t] = "b_unlock"]
            /\ UNCHANGED << profiler, disposition >>
       ELSE /\ blocklist_segments' = arg[t]
            /\ \E sigOk \in BOOLEAN : ProfilerStart(t, sigOk)
            /\ UNCHANGED << sample_counter, data >>
    /\ arg' = [arg EXCEPT ![t] = << >>]
    /\ UNCHANGED << lazy, lock, timerArmed, pending, guards, sig >>
    /\ UNCHANGED pure

\* build(): start() returned Ok: Timer::new arms the timer, the guard exists.
BuildTimer(t) ==
    /\ pc[t] = "b_timer" /\ hpc[t] = "none"
    /\ timerArmed' = TRUE
    /\ guards' = [guards EXCEPT ![t] = @ + 1]
    /\ ret' = [ret EXCEPT ![t] = "Ok"]
    /\ pc' = [pc EXCEPT ![t] = "b_unlock"]
    /\ UNCHANGED << lazy, profiler, lock, disposition, pending, arg, sig >>
    /\ UNCHANGED pure

\* build() returns: the write guard is dropped.
BuildUnlock(t) ==
    /\ pc[t] = "b_unlock" /\ hpc[t] = "none"
    /\ lockW' = NoOwner
    /\ pc' = [pc EXCEPT ![t] = "idle"]
    /\ ret' = [ret EXCEPT ![t] = "none"]
    /\ UNCHANGED << lazy, profiler, kernel, lockR, guards, arg, sig >>
    /\ UNCHANGED pure

\* ------------------------------------------------ Drop for ProfilerGuard

\* A drop() that would leave the timer armed until after stop().
DropTimer_keeparmed(t) ==
    /\ pc[t] = "idle" /\ hpc[t] = "none"
    /\ guards[t] > 0
    /\ pc' = [pc EXCEPT ![t] = "d_write"]
    /\ ret' = [ret EXCEPT ![t] = "none"]
    /\ UNCHANGED << lazy, profiler, lock, kernel, guards, arg, sig >>
    /\ UNCHANGED pure

\* drop(self.timer.take()): the timer is disarmed.
DropTimer(t) ==
    /\ pc[t] = "idle" /\ hpc[t] = "none"
    /\ guards[t] > 0
    /\ timerArmed' = FALSE
    /\ pc' = [pc EXCEPT ![t] = "d_write"]
    /\ ret' = [ret EXCEPT ![t] = "none"]
    /\ UNCHANGED << lazy, profiler, lock, disposition, pending, guards, arg, sig >>
    /\ UNCHANGED pure

\* self.profiler.write() in drop().
DropWrite(t) ==
    /\ pc[t] = "d_write" /\ hpc[t] = "none"
    /\ LockFree
    /\ lockW' = << t, "main" >>
    /\ pc' = [pc EXCEPT ![t] = "d_locked"]
    /\ UNCHANGED << lazy, profiler, kernel, lockR, guards, arg, ret, sig >>
    /\ UNCHANGED pure

\* A stop() that would not test self.running.
DropStop_nocheck(t) ==
    /\ pc[t] = "d_locked" /\ hpc[t] = "none"
    /\ IF lazy = "err"
       THEN /\ pc' = [pc EXCEPT ![t] = "d_unlock"]
            /\ UNCHANGED << ret, disposition, pending >>
       ELSE \E sigOk \in BOOLEAN :
            IF sigOk
            THEN /\ disposition' = "ignore"
                 /\ pending' = FALSE
                 /\ pc' = [pc EXCEPT ![t] = "d_init"]
                 /\ UNCHANGED ret
            ELSE /\ ret' = [ret EXCEPT ![t] = "OsError"]
                 /\ pc' = [pc EXCEPT ![t] = "d_unlock"]
                 /\ UNCHANGED << disposition, pending >>
    /\ UNCHANGED << lazy, profiler, lock, timerArmed, guards, arg, sig >>
    /\ UNCHANGED pure

\* Profiler::stop up to unregister_signal_handler()?; sigOk is the outcome of
\* signal(SIGPROF, SIG_IGN), which also discards a pending SIGPROF.
DropStop(t) ==
    /\ pc[t] = "d_locked" /\ hpc[t] = "none"
    /\ IF lazy = "err"
       THEN /\ pc' = [pc EXCEPT ![t] = "d_unlock"]
            /\ UNCHANGED << ret, disposition, pending >>
       ELSE IF ~running
       THEN /\ ret' = [ret EXCEPT ![t] = "NotRunning"]
            /\ pc' = [pc EXCEPT ![t] = "d_unlock"]
            /\ UNCHANGED << disposition, pending >>
       ELSE \E sigOk \in BOOLEAN :
            IF sigOk
            THEN /\ disposition' = "ignore"
                 /\ pending' = FALSE
                 /\ pc' = [pc EXCEPT ![t] = "d_init"]
                 /\ UNCHANGED ret
            ELSE /\ ret' = [ret EXCEPT ![t] = "OsError"]
                 /\ pc' = [pc EXCEPT ![t] = "d_unlock"]
                 /\ UNCHANGED << disposition, pending >>
    /\ UNCHANGED << lazy, profiler, lock, timerArmed, guards, arg, sig >>
    /\ UNCHANGED pure

\* Profiler::init; newOk is the outcome of Collector::new().
DropInit(t) ==
    /\ pc[t] = "d_init" /\ hpc[t] = "none"
    /\ sample_counter' = 0
    /\ \E newOk \in BOOLEAN :
         IF newOk
         THEN /\ data' = EmptyBag
              /\ running' = FALSE
              /\ ret' = [ret EXCEPT ![t] = "Ok"]
         ELSE /\ ret' = [ret EXCEPT ![t] = "CreatingError"]
              /\ UNCHANGED << data, running >>
    /\ pc' = [pc EXCEPT ![t] = "d_unlock"]
    /\ UNCHANGED << lazy, blocklist_segments, lock, kernel, guards, arg, sig >>
    /\ UNCHANGED pure

\* drop() returns: the write guard is released and the ProfilerGuard is gone.
DropUnlock(t) ==
    /\ pc[t] = "d_unlock" /\ hpc[t] = "none"
    /\ lockW' = NoOwner
    /\ guards' = [guards EXCEPT ![t] = @ - 1]
    /\ pc' = [pc EXCEPT ![t] = "idle"]
    /\ ret' = [ret EXCEPT ![t] = "none"]
    /\ UNCHANGED << lazy, profiler, kernel, lockR, arg, sig >>
    /\ UNCHANGED pure

\* ------------------------------------------------------------ the kernel

\* The armed ITIMER_PROF expires: a SIGPROF is generated. With the
\* disposition "ignore" the signal is discarded at once; with "default" it
\* would end the process, which C4_InstallationOrder shows cannot happen.
TimerFire ==
    /\ timerArmed /\ ~pending
    /\ disposition = "handler"
    /\ pending' = TRUE
    /\ UNCHANGED << lazy, profiler, lock, disposition, timerArmed, main, sig >>
    /\ UNCHANGED pure

\* perf_signal_handler is entered: let _errno = ErrnoProtector::new().
HandlerEnter(t, ctx) ==
    /\ hpc[t] = "none"
    /\ sample_counter + Cardinality({u \in Threads : hpc[u] # "none"}) < MaxSamples
    /\ hpc' = [hpc EXCEPT ![t] = "trylock"]
    /\ uctx' = [uctx EXCEPT ![t] = ctx]
    /\ entryErrno' = [entryErrno EXCEPT ![t] = errno[t]]
    /\ saved' = [saved EXCEPT ![t] = ErrnoProtectorNew(errno[t])]
    /\ UNCHANGED errno

\* The kernel delivers the pending SIGPROF to thread t, whatever t executes;
\* the interrupted PC is a.
Deliver(t) ==
    /\ pending /\ disposition = "handler"
    /\ \E a \in Addrs : HandlerEnter(t, a)
    /\ pending' = FALSE
    /\ UNCHANGED << lazy, profiler, lock, disposition, timerArmed, main >>
    /\ UNCHANGED pure

\* tests::malloc_free: perf_signal_handler(27, null_mut(), null_mut())
\* called inline, after trigger_lazy(), by a thread that is not inside
\* build() or drop().
InlineCall(t) ==
    /\ pc[t] = "idle"
    /\ lazy # "uninit"
    /\ HandlerEnter(t, NullCtx)
    /\ UNCHANGED << lazy, profiler, lock, kernel, main >>
    /\ UNCHANGED pure

\* ------------------------------------------------- perf_signal_handler

\* The handler returns on thread t: _errno is dropped.
HandlerReturn(t) ==
    /\ hpc' = [hpc EXCEPT ![t] = "none"]
    /\ errno' = [errno EXCEPT ![t] = ErrnoProtectorDrop(saved[t], errno[t])]
    /\ uctx' = [uctx EXCEPT ![t] = NullCtx]
    /\ saved' = [saved EXCEPT ![t] = 0]
    /\ entryErrno' = [entryErrno EXCEPT ![t] = 0]

\* A handler that would take the lock with the blocking write().
HTryWrite_blocking(t) ==
    /\ hpc[t] = "trylock"
    /\ LockFree
    /\ lockW' = << t, "sig" >>
    /\ hpc' = [hpc EXCEPT ![t] = "locked"]
    /\ UNCHANGED << uctx, errno, saved, entryErrno >>
    /\ UNCHANGED << lazy, profiler, kernel, lockR, main >>
    /\ UNCHANGED pure

\* if let Some(mut guard) = PROFILER.try_write(). The Lazy is initialised by
\* now: trigger_lazy() precedes both the handler's installation and the
\* inline call.
HTryWrite(t) ==
    /\ hpc[t] = "trylock"
    /\ IF LockFree
       THEN /\ lockW' = << t, "sig" >>
            /\ hpc' = [hpc EXCEPT ![t] = "locked"]
            /\ UNCHANGED << uctx, errno, saved, entryErrno >>
       ELSE /\ HandlerReturn(t)
            /\ UNCHANGED lockW
    /\ UNCHANGED << lazy, profiler, kernel, lockR, main >>
    /\ UNCHANGED pure

\* The handler skips the sample: Err state or blocklisted interrupted PC.
HandlerSkips(t) ==
    \/ lazy = "err"
    \/ uctx[t] # NullCtx /\ is_blocklisted(blocklist_segments, uctx[t])

\* The key under which Profiler::sample files the sample of thread t.
SampleKey(t) ==
    << Visit(Unwind(uctx[t]), blocklist_segments, << >>), t >>

\* A sample() that would count only the samples the sink accepted.
ProfilerSample_onlyok(t, addOk) ==
    /\ sample_counter' = IF addOk THEN sample_counter + 1 ELSE sample_counter
    /\ data' = IF addOk THEN data (+) SetToBag({SampleKey(t)}) ELSE data

\* Profiler::sample; addOk is the outcome of Collector::add(frames, 1).
ProfilerSample(t, addOk) ==
    /\ sample_counter' = sample_counter + 1
    /\ data' = IF addOk THEN data (+) SetToBag({SampleKey(t)}) ELSE data

\* The body of perf_signal_handler under the write lock: the guard.as_mut()
\* match, the blocklist check of the interrupted PC with its early return,
\* SystemTime::now(), TraceImpl::trace, write_thread_name (which may set
\* errno) and profiler.sample().
HBody(t) ==
    /\ hpc[t] = "locked"
    /\ IF HandlerSkips(t)
       THEN /\ HandlerReturn(t)
            /\ lockW' = NoOwner
            /\ UNCHANGED profiler
       ELSE /\ \E addOk \in BOOLEAN : ProfilerSample(t, addOk)
            /\ \E e \in ErrnoVals : errno' = [errno EXCEPT ![t] = e]
            /\ hpc' = [hpc EXCEPT ![t] = "ret"]
            /\ UNCHANGED << running, blocklist_segments, lockW, uctx, saved, entryErrno >>
    /\ UNCHANGED << lazy, kernel, lockR, main >>
    /\ UNCHANGED pure

\* A handler that would return after sampling with the write guard leaked.
HReturn_keeplock(t) ==
    /\ hpc[t] = "ret"
    /\ HandlerReturn(t)
    /\ UNCHANGED << lazy, profiler, kernel, lock, main >>
    /\ UNCHANGED pure

\* The handler returns after sampling: the write guard, then _errno, drop.
HReturn(t) ==
    /\ hpc[t] = "ret"
    /\ HandlerReturn(t)
    /\ lockW' = NoOwner
    /\ UNCHANGED << lazy, profiler, kernel, lockR, main >>
    /\ UNCHANGED pure

\* -------------------------------------------------------------------- Next
MainStep(t) ==
    \/ BuildTriggerLazy(t)
    \/ BuildLazyRelease(t)
    \/ BuildWrite(t)
    \/ BuildStart(t)
    \/ BuildTimer(t)
    \/ BuildUnlock(t)
    \/ DropTimer(t)
    \/ DropWrite(t)
    \/ DropStop(t)
    \/ DropInit(t)
    \/ DropUnlock(t)

HandlerStep(t) ==
    \/ HTryWrite(t)
    \/ HBody(t)
    \/ HReturn(t)

Next ==
    \/ \E t \in Threads : MainStep(t)
    \/ \E t \in Threads : HandlerStep(t)
    \/ \E t \in Threads : Deliver(t)
    \/ \E t \in Threads : InlineCall(t)
    \/ TimerFire

Spec == Init /\ [][Next]_vars

SpecErrno == InitErrno /\ [][Next]_vars

\* ------------------------------------------------- the report consumer
\* guard.report() followed by the ReportBuilder's traversal of the sink: the
\* thread that owns the guard is about to take the state lock.
ReportStart(t) ==
    /\ pc[t] = "idle" /\ hpc[t] = "none"
    /\ guards[t] > 0
    /\ pc' = [pc EXCEPT ![t] = "r_wait"]
    /\ UNCHANGED << lazy, profiler, kernel, lock, guards, arg, ret, sig >>
    /\ UNCHANGED pure

\* The consumer's blocking acquisition of the state lock, for reading,
\* returns.
ReportLock(t) ==
    /\ pc[t] = "r_wait" /\ hpc[t] = "none"
    /\ lockW = NoOwner
    /\ lockR' = lockR \cup {t}
    /\ pc' = [pc EXCEPT ![t] = "r_locked"]
    /\ UNCHANGED << lazy, profiler, kernel, lockW, guards, arg, ret, sig >>
    /\ UNCHANGED pure

\* The traversal is over: the consumer releases the lock.
ReportUnlock(t) ==
    /\ pc[t] = "r_locked" /\ hpc[t] = "none"
    /\ lockR' = lockR \ {t}
    /\ pc' = [pc EXCEPT ![t] = "idle"]
    /\ UNCHANGED << lazy, profiler, kernel, lockW, guards, arg, ret, sig >>
    /\ UNCHANGED pure

ReportStep(t) ==
    \/ ReportStart(t)
    \/ ReportLock(t)
    \/ ReportUnlock(t)

NextReport ==
    \/ Next
    \/ \E t \in Threads : ReportStep(t)

SpecReport == Init /\ [][NextReport]_vars

\* ---------------------------------------- Profiler::stop on any Profiler
\* Sample sinks a Profiler can hold: empty, or one recorded sample.
StopData == { EmptyBag, SetToBag({ << << 0 >>, 1 >> }) }

\* Profiler::stop is a pub fn of Profiler: thread 1 holds the write lock and
\* calls it on a Profiler in any state, profiling or not.
InitStop ==
    /\ lazy = "ok"
    /\ running \in BOOLEAN
    /\ sample_counter \in 0 .. MaxSamples
    /\ data \in StopData
    /\ blocklist_segments \in BlocklistChoices
    /\ lockW = << 1, "main" >>
    /\ lockR = {}
    /\ disposition \in {"default", "handler", "ignore"}
    /\ timerArmed = FALSE
    /\ pending \in BOOLEAN
    /\ guards = [t \in Threads |-> IF t = 1 THEN 1 ELSE 0]
    /\ pc = [t \in Threads |-> IF t = 1 THEN "d_locked" ELSE "idle"]
    /\ arg = [t \in Threads |-> << >>]
    /\ ret = [t \in Threads |-> "none"]
    /\ hpc = [t \in Threads |-> "none"]
    /\ uctx = [t \in Threads |-> NullCtx]
    /\ saved = [t \in Threads |-> 0]
    /\ entryErrno = [t \in Threads |-> 0]
    /\ errno = [t \in Threads |-> 0]
    /\ frame_pointer = TRUE
    /\ call = NoCall

NextStop ==
    \/ \E t \in Threads : DropStop(t)
    \/ \E t \in Threads : DropInit(t)
    \/ \E t \in Threads : DropUnlock(t)

SpecStop == InitStop /\ [][NextStop]_vars

\* ------------------------- the trace closure and the fallback thread name
\* Frame sequences TraceImpl::trace hands to the closure.
FrameSeqs == UNION { [1 .. n -> 0 .. MaxAddr] : n \in 0 .. MaxFrames }

\* The crate built with or without the frame-pointer feature.
InitFn ==
    /\ InitProfiler
    /\ errno = [t \in Threads |-> 0]
    /\ frame_pointer \in BOOLEAN
    /\ call = NoCall

\* perf_signal_handler from TraceImpl::trace on: the closure of either file
\* walks the frames the unwinder yields. One application is followed from
\* the initial state.
CallTrace ==
    /\ call = NoCall
    /\ \E frames \in FrameSeqs, segments \in BlocklistChoices :
         call' = [op |-> "trace", frames |-> frames, segments |-> segments,
                  bt |-> Visit(frames, segments, << >>),
                  btNix |-> VisitNix(frames, segments, << >>)]
    /\ UNCHANGED << lazy, profiler, kernel, lock, main, sig, frame_pointer >>

\* perf_signal_handler: a zero-filled name buffer is handed to
\* write_thread_name_fallback.
CallFallback ==
    /\ call = NoCall
    /\ \E tid \in 1 .. MaxTid :
         LET r == write_thread_name_fallback(tid, ZeroName)
         IN  call' = [op |-> "name", tid |-> tid, name |-> r.name,
                      logged |-> r.logged]
    /\ UNCHANGED << lazy, profiler, kernel, lock, main, sig, frame_pointer >>

\* perf_signal_handler after the trace: profiler.sample(bt, ..) on thread 1;
\* addOk is the outcome of Collector::add(frames, 1).
CallSample ==
    /\ call.op = "trace"
    /\ sample_counter < MaxSamples
    /\ sample_counter' = sample_counter + 1
    /\ \E addOk \in BOOLEAN :
         data' = IF addOk THEN data (+) SetToBag({ << call.bt, 1 >> }) ELSE data
    /\ call' = [call EXCEPT !.op = "sample"]
    /\ UNCHANGED << lazy, running, blocklist_segments, kernel, lock, main, sig,
                    frame_pointer >>

\* usize addresses the query is applied to: 0 and the PCs up to one past
\* MaxAddr.
QueryAddrs == 0 .. MaxAddr + 1

\* Vec<(usize, usize)>: lists of up to two (start, end) pairs, ordered or
\* not, empty or not, overlapping or not.
SegmentLists ==
    UNION { [1 .. n -> QueryAddrs \X QueryAddrs] : n \in 0 .. 2 }

\* profiler.is_blocklisted(addr) on a Profiler with any blocklist_segments.
CallBlocklisted ==
    /\ call = NoCall
    /\ \E addr \in QueryAddrs, segments \in SegmentLists :
         call' = [op |-> "blocklisted", addr |-> addr, segments |-> segments,
                  result |-> is_blocklisted(segments, addr)]
    /\ UNCHANGED << lazy, profiler, kernel, lock, main, sig, frame_pointer >>

NextFn ==
    \/ CallTrace
    \/ CallFallback
    \/ CallSample
    \/ CallBlocklisted

SpecFn == InitFn /\ [][NextFn]_vars

TypeOK ==
    /\ lazy \in {"uninit", "ok", "err"}
    /\ running \in BOOLEAN
    /\ sample_counter \in Nat
    /\ disposition \in {"default", "handler", "ignore"}
    /\ timerArmed \in BOOLEAN
    /\ pending \in BOOLEAN
    /\ \A t \in Threads : guards[t] \in Nat

\* ------------------------------------------------------- derived notions

\* Number of live ProfilerGuards in the process.
RECURSIVE SumGuards(_)
SumGuards(S) ==
    IF S = {} THEN 0
    ELSE LET t == CHOOSE x \in S : TRUE IN guards[t] + SumGuards(S \ {t})

LiveGuards == SumGuards(Threads)

\* Thread t is inside build(), drop() or the handler.
Busy(t) == pc[t] # "idle" \/ hpc[t] # "none"

\* Address a lies in a half-open segment [start, end) of the active blocklist.
InSegment(a) ==
    \E i \in 1 .. Len(blocklist_segments) :
        blocklist_segments[i][1] <= a /\ a < blocklist_segments[i][2]

\* Thread t's build() executes its body under the write lock in this step.
BuildBodyStep(t) == pc[t] = "b_locked" /\ pc'[t] # "b_locked"

\* Thread t's handler executes its body under the write lock in this step.
HandlerBodyStep(t) == hpc[t] = "locked" /\ hpc'[t] # "locked"

\* Thread t's handler executes its try_write in this step.
HandlerTryStep(t) == hpc[t] = "trylock" /\ hpc'[t] # "trylock"

\* ================================================================ claims

\* C1 as stated: of two concurrent build() calls exactly one returns a guard
\* and the other fails with Running; so while a second build() is under way,
\* the build() that ran first is about to return a guard or Running, nothing
\* else.
C1_ExactlyOneOfTwo ==
    \A t, u \in Threads :
        (t # u /\ pc[t] = "b_unlock" /\ pc[u] \in {"b_lazy", "b_write"} /\ lazy = "ok")
           => ret[t] \in {"Ok", "Running"}

\* C1, amended: at most one ProfilerGuard is live at any time; a guard comes
\* into being only when none is live; a build() whose body runs while
\* running = true fails with Running and starts nothing; one whose body runs
\* while running = false either installs the handler and goes on to return a
\* guard, or fails with the OS error of sigaction and leaves running = false.
C1_GuardExclusive ==
    /\ [](LiveGuards <= 1)
    /\ [][\A t \in Threads :
            /\ guards'[t] > guards[t] => LiveGuards = 0 /\ ret'[t] = "Ok"
            /\ (BuildBodyStep(t) /\ lazy = "ok" /\ running)
                 => /\ ret'[t] = "Running" /\ pc'[t] = "b_unlock"
                    /\ UNCHANGED << running, disposition, timerArmed, guards >>
            /\ (BuildBodyStep(t) /\ lazy = "ok" /\ ~running)
                 => \/ pc'[t] = "b_timer" /\ running' /\ disposition' = "handler"
                    \/ /\ ret'[t] = "OsError" /\ pc'[t] = "b_unlock"
                       /\ UNCHANGED << running, disposition, timerArmed, guards >>
         ]_vars

\* C1 witness: one thread owns the guard while the other's build() is about
\* to return Running.
C1_Witness ==
    \E t, u \in Threads :
        t # u /\ guards[t] = 1 /\ pc[u] = "b_unlock" /\ ret[u] = "Running"

\* C2 as stated: a handler that runs while running = false adds nothing to
\* the sink and leaves sample_counter unchanged.
C2_ShortCircuitsWhenNotRunning ==
    [][\A t \in Threads :
         (hpc'[t] # hpc[t] /\ hpc[t] # "none" /\ lazy = "ok" /\ ~running)
            => UNCHANGED << sample_counter, data >>]_vars

\* C3: a handler in progress always has an enabled step (it never waits); when
\* its try_write finds the lock held it returns in that step and changes
\* neither the ProfilerState, the lock nor the kernel objects; the interrupted
\* lock holder can then step; and whenever some thread is inside build(),
\* drop() or the handler, one of them can step (no deadlock).
C3_HandlerNeverBlocks ==
    /\ [](\A t \in Threads : hpc[t] # "none" => ENABLED HandlerStep(t))
    /\ [](\A t \in Threads :
            (lockW = << t, "main" >> /\ hpc[t] = "none") => ENABLED MainStep(t))
    /\ []((\E t \in Threads : Busy(t)) =>
            \E t \in Threads :
                Busy(t) /\ ENABLED (HandlerStep(t) \/ (pc[t] # "idle" /\ MainStep(t))))
    /\ [][\A t \in Threads :
            (HandlerTryStep(t) /\ ~LockFree)
               => /\ hpc'[t] = "none"
                  /\ UNCHANGED << lazy, profiler, lock, kernel, main >>]_vars

\* C3 witness: the handler runs on the very thread that holds the write lock
\* inside build(), it has not yet tried the lock, and another thread's build()
\* waits for the lock.
C3_Witness ==
    /\ \E t \in Threads :
          lockW = << t, "main" >> /\ hpc[t] = "trylock" /\ pc[t] = "b_unlock"
    /\ \E u \in Threads : pc[u] = "b_write"

\* C4: the timer is armed only while the SIGPROF disposition is the handler;
\* the timer gets armed only with the handler installed; the disposition is
\* replaced by ignore only with the timer disarmed; and Profiler::init resets
\* counter and sink only after both.
C4_InstallationOrder ==
    /\ [](timerArmed => disposition = "handler")
    /\ [][/\ (~timerArmed /\ timerArmed') => disposition = "handler"
          /\ (disposition = "handler" /\ disposition' # "handler")
                => (~timerArmed /\ disposition' = "ignore")
          /\ \A t \in Threads :
                (pc[t] = "d_init" /\ pc'[t] # "d_init")
                   => (~timerArmed /\ disposition = "ignore")
         ]_vars

\* C4 witness: inside a guard's drop the timer is disarmed and the disposition
\* is ignore, while counter and sink have yet to be reset.
C4_Witness ==
    \E t \in Threads :
        /\ pc[t] = "d_init" /\ ~timerArmed /\ disposition = "ignore"
        /\ sample_counter > 0

\* C5: on every exit path of the handler errno is, when the handler returns,
\* what it was when the handler was entered.
C5_ErrnoPreserved ==
    [][\A t \in Threads :
         (hpc[t] # "none" /\ hpc'[t] = "none") => errno'[t] = entryErrno[t]]_vars

\* C5 witness: the handler, entered with errno = 4, has sampled, errno was
\* changed meanwhile, and the handler is about to return.
C5_Witness ==
    \E t \in Threads :
        hpc[t] = "ret" /\ entryErrno[t] = 4 /\ errno[t] # entryErrno[t]

\* C6 as stated: a handler whose interrupted PC lies in a blocklisted segment
\* [start, end) records no sample in the sink.
C6_BlocklistExcision ==
    [][\A t \in Threads :
         (HandlerBodyStep(t) /\ uctx[t] # NullCtx /\ InSegment(uctx[t]))
            => data' = data]_vars

\* C7 as stated: once the guard of a successful build() has been dropped, a
\* further build() does not fail with Running: build() returns Running only
\* while a guard is live.
C7_StartStopIdempotent ==
    \A t \in Threads :
        (pc[t] = "b_unlock" /\ ret[t] = "Running") => LiveGuards > 0

\* C8 as stated: a handler entered through a delivered SIGPROF adds to the
\* sink or increments sample_counter only while running = true.
C8_SamplesOnlyWhileRunning ==
    [][\A t \in Threads :
         (HandlerBodyStep(t) /\ uctx[t] # NullCtx
            /\ (sample_counter' # sample_counter \/ data' # data))
            => running]_vars

\* C9 as stated: when the drop of a guard has run, the timer is disarmed, the
\* SIGPROF disposition is not the handler, running = false,
\* sample_counter = 0 and the sink is empty.
C9_DropResets ==
    \A t \in Threads :
        (pc[t] = "d_unlock" /\ lazy = "ok")
           => /\ ~timerArmed
              /\ disposition # "handler"
              /\ ~running
              /\ sample_counter = 0
              /\ data = EmptyBag

\* C10 as stated: a build() that returns Running leaves running,
\* sample_counter, the sink, the disposition, the timer, the active
\* blocklist_segments and the guards as they were.
C10_RunningLeavesProfileUntouched ==
    [][\A t \in Threads :
         (BuildBodyStep(t) /\ ret'[t] = "Running")
            => UNCHANGED << running, sample_counter, data, disposition,
                            timerArmed, blocklist_segments, guards >>]_vars

\* C11: Profiler::stop called while running = false returns NotRunning and
\* changes nothing: running, sample_counter, the sink, the blocklist and
\* the SIGPROF disposition are what they were before the call.
C11_StopWhenNotRunning ==
    [][\A t \in Threads :
         (pc[t] = "d_locked" /\ pc'[t] # "d_locked" /\ lazy = "ok" /\ ~running)
         => /\ ret'[t] = "NotRunning"
            /\ UNCHANGED << running, sample_counter, data,
                            blocklist_segments, disposition >>]_vars

\* stop() has returned NotRunning on a Profiler that holds a sample and has
\* the handler installed.
C11_Witness ==
    \E t \in Threads :
        /\ pc[t] = "d_unlock" /\ ret[t] = "NotRunning"
        /\ ~running /\ sample_counter > 0 /\ data # EmptyBag
        /\ disposition = "handler"

FirstBlocklisted(frames, segments) ==
    LET bad == { i \in 1 .. Len(frames) : is_blocklisted(segments, frames[i]) }
    IN  IF bad = {} THEN Len(frames) + 1
        ELSE CHOOSE i \in bad : \A j \in bad : i <= j

\* The first n elements of s, or all of s.
Take(s, n) == SubSeq(s, 1, IF Len(s) < n THEN Len(s) ELSE n)

\* C13: the handler's stack buffer never receives more than MAX_DEPTH
\* frames, whatever number of frames the unwinder yields, so the SmallVec
\* of inline capacity MAX_DEPTH never spills to the heap; and the fallback
\* thread naming never takes the arm that logs.
C13_NoHeapSpill ==
    /\ call.op = "trace"
       => Len(call.bt) <= MAX_DEPTH /\ Len(call.btNix) <= MAX_DEPTH
    /\ call.op = "name" => ~call.logged

\* The unwinder yielded more than MAX_DEPTH frames, none blocklisted, and
\* the buffer holds MAX_DEPTH of them.
C13_Witness ==
    /\ call.op = "trace"
    /\ Len(call.frames) > MAX_DEPTH
    /\ FirstBlocklisted(call.frames, call.segments) > Len(call.frames)
    /\ Len(call.bt) = MAX_DEPTH

\* A guard is live and its drop has not run Profiler::init: the time between
\* a start and the matching stop.
InProfile ==
    /\ running
    /\ \E t \in Threads : guards[t] > 0 /\ pc[t] # "d_unlock"

\* C14: every handler invocation that reaches Profiler::sample raises
\* sample_counter by exactly 1, whether the sink takes the sample (one more
\* entry) or refuses it (the sink unchanged, the handler goes on to return);
\* outside Profiler::init sample_counter never decreases; and between a
\* start and the matching stop it is at least the number of samples
\* committed to the sink.
C14_SampleAccounting ==
    /\ [][\A t \in Threads :
            (HandlerBodyStep(t) /\ hpc'[t] = "ret")
            => /\ sample_counter' = sample_counter + 1
               /\ \/ data' = data
                  \/ BagCardinality(data') = BagCardinality(data) + 1]_vars
    /\ [][(\A t \in Threads : pc[t] # "d_init")
            => sample_counter' >= sample_counter]_vars
    /\ [](InProfile => sample_counter >= BagCardinality(data))

\* While a profile runs a handler has counted a sample the sink refused.
C14_Witness ==
    /\ InProfile
    /\ \E t \in Threads : hpc[t] = "ret"
    /\ sample_counter > BagCardinality(data)

\* The decimal representation of n in ASCII.
RECURSIVE Decimal(_)
Decimal(n) ==
    IF n < 10 THEN << 48 + n >>
    ELSE Append(Decimal(n \div 10), 48 + (n % 10))

\* C15: for every thread id whose decimal form fits in the name buffer with
\* its terminator, the name read back after write_thread_name_fallback is
\* that decimal form, for 1 and for the exact powers of ten as well.
C15_FallbackIsDecimal ==
    (call.op = "name" /\ Len(Decimal(call.tid)) < MAX_THREAD_NAME)
    => to_bytes(call.name) = Decimal(call.tid)

\* C16: after write_thread_name_fallback on a zero-filled buffer of
\* MAX_THREAD_NAME bytes, some byte of the buffer is still NUL.
C16_NulInsideBuffer ==
    call.op = "name" => \E i \in 1 .. MAX_THREAD_NAME : call.name[i] = 0

\* The trace closure has been applied.
Traced == call.op \in {"trace", "sample"}

\* C17: with the frame-pointer backend the stack handed to the sink is the
\* longest prefix of the unwinder's frames without a blocklisted ip, cut to
\* its first MAX_DEPTH frames; and the sample, truncated or empty as it may
\* be, is then counted by Profiler::sample with that stack.
C17_StackIsCleanPrefix ==
    /\ []((Traced /\ frame_pointer)
          => LET clean == SubSeq(call.frames, 1,
                            FirstBlocklisted(call.frames, call.segments) - 1)
             IN  /\ call.bt = Take(clean, MAX_DEPTH)
                 /\ call.btNix = Take(clean, MAX_DEPTH))
    /\ [][(call.op = "trace" /\ call'.op = "sample")
            => /\ sample_counter' = sample_counter + 1
               /\ call'.bt = call.bt
               /\ \/ data' = data
                  \/ data' = data (+) SetToBag({ << call.bt, 1 >> })]_vars

\* A stack that a blocklisted frame cut short has been sampled.
C17_Witness ==
    /\ call.op = "sample" /\ frame_pointer
    /\ FirstBlocklisted(call.frames, call.segments) <= MAX_DEPTH
    /\ Len(call.bt) < Len(call.frames)
    /\ BagIn(<< call.bt, 1 >>, data)

\* C18: without the frame-pointer backend the closure checks no frame: a
\* blocklisted frame neither ends the walk nor is left out, so the stack is
\* the first MAX_DEPTH frames the unwinder yields.
C18_LibunwindKeepsBlocklisted ==
    (Traced /\ ~frame_pointer)
    => /\ call.bt = Take(call.frames, MAX_DEPTH)
       /\ call.btNix = Take(call.frames, MAX_DEPTH)

\* C19: a report consumer that has to wait for the state lock waits for a
\* build() or a drop() that holds it, never for a signal handler that holds
\* it on another thread.
C19_ReportWaitsOnlyOnStartStop ==
    \A t \in Threads :
        (pc[t] = "r_wait" /\ lockW # NoOwner /\ lockW[1] # t)
        => lockW[2] = "main"

\* How far a handler invocation has got.
HRank(h) ==
    CASE h = "trylock" -> 1
      [] h = "locked"  -> 2
      [] h = "ret"     -> 3
      [] h = "none"    -> 4

\* C20: every handler invocation terminates and holds nothing afterwards.
\* Each of its steps moves it strictly forward through at most three
\* positions, its next step is always possible, the step by which it
\* returns leaves the write lock not held by it, and a thread outside the
\* handler, or before its try_write, never holds the lock as a handler.
C20_HandlerTerminatesLockFree ==
    /\ [][\A t \in Threads :
            /\ (hpc[t] # "none" /\ hpc'[t] # hpc[t])
               => HRank(hpc'[t]) > HRank(hpc[t])
            /\ (hpc[t] # "none" /\ hpc'[t] = "none")
               => lockW' # << t, "sig" >>]_vars
    /\ [](\A t \in Threads :
            /\ hpc[t] # "none" => ENABLED HandlerStep(t)
            /\ hpc[t] \in {"none", "trylock"} => lockW # << t, "sig" >>)

\* A handler has taken a sample under the write lock and returned, and
\* build() or drop() holds the lock after it.
C20_Witness ==
    /\ sample_counter > 0
    /\ \A t \in Threads : hpc[t] = "none"
    /\ lockW[2] = "main"

\* The addresses strictly between start and end of the segments of a list.
Interior(segments) ==
    UNION { (segments[i][1] + 1) .. (segments[i][2] - 1) :
              i \in 1 .. Len(segments) }

\* C21: is_blocklisted(a) is true exactly when a lies strictly between the
\* start and the end of some segment of the list; so with a single segment
\* neither its start nor its end is blocklisted, and address 0 is
\* blocklisted by no list.
C21_StrictInterior ==
    call.op = "blocklisted"
    => /\ call.result <=> call.addr \in Interior(call.segments)
       /\ (Len(call.segments) = 1
            /\ call.addr \in {call.segments[1][1], call.segments[1][2]})
          => ~call.result
       /\ call.addr = 0 => ~call.result

\* The query was put for the end of a single segment that has an interior.
C21_Witness ==
    /\ call.op = "blocklisted"
    /\ Len(call.segments) = 1
    /\ call.segments[1][1] + 1 < call.segments[1][2]
    /\ call.addr = call.segments[1][2]
    /\ ~call.result

\* C22: once Profiler::new() has failed the state stays Err; every build()
\* whose body runs then returns CreatingError and changes nothing; so the
\* handler is never installed, the timer never armed, no guard ever made;
\* and a handler invocation in that state counts and records nothing.
C22_ErrStateIsInert ==
    /\ [][lazy = "err"
            => /\ lazy' = "err"
               /\ UNCHANGED << sample_counter, data >>
               /\ \A t \in Threads :
                    BuildBodyStep(t)
                    => /\ ret'[t] = "CreatingError" /\ pc'[t] = "b_unlock"
                       /\ UNCHANGED << profiler, kernel, guards >>]_vars
    /\ [](lazy = "err"
          => /\ disposition = "default" /\ ~timerArmed /\ LiveGuards = 0
             /\ ~running /\ sample_counter = 0 /\ data = EmptyBag)

\* In the Err state a build() is about to return CreatingError and a handler
\* invocation has been entered.
C22_Witness ==
    /\ lazy = "err"
    /\ \E t \in Threads : pc[t] = "b_unlock" /\ ret[t] = "CreatingError"
    /\ \E u \in Threads : hpc[u] = "trylock"
====
